---- MODULE Spec2Model ----
(***************************************************************************)
(* Model of capsules/core/src/life.rs: LifeDriver, a field-less            *)
(* SyscallDriver whose `command` maps (command_num, data) to a             *)
(* CommandReturn and whose `allocate_grant` always returns Ok(()).         *)
(*                                                                         *)
(* The kernel's dispatch front-end may have one call in flight per         *)
(* process; a call is entered and later returns, so calls of different    *)
(* processes interleave.  LifeDriver has no fields, so                     *)
(* the only state is the calls in flight and the record of completed       *)
(* calls.                                                                  *)
(***************************************************************************)
EXTENDS Integers, Sequences, FiniteSets, TLC

\* ---- bounds ----
\* width of usize in the model; no arithmetic is done on usize values
WordBits == 16
\* calls dispatched in one run of Spec
MaxCalls == 2
\* calls dispatched in one run of SpecSeq
MaxTrace == 3

UsizeMax == 2^WordBits - 1

\* calling processes (ProcessId values handed in by the kernel)
ProcessId == {"P1", "P2"}

\* inputs of Spec
CommandNums == {0, 1, 2, 3, UsizeMax}
DataVals == {0, 42, UsizeMax}
Arg2Vals == {0, 1}

\* inputs of SpecSeq
SeqCommandNums == {0, 1, 2}
SeqDataVals == {7, 42}
SeqArg2Vals == {0}

VARIABLES call, trace, budget

vars == <<call, trace, budget>>

\* kernel::ErrorCode, the error vocabulary of CommandReturn::failure
ErrorCode == {"FAIL", "BUSY", "ALREADY", "OFF", "RESERVE", "INVAL", "SIZE",
              "CANCEL", "NOMEM", "NOSUPPORT", "NODEVICE", "UNINSTALLED", "NOACK"}

\* ---- CommandReturn constructors used by the driver ----
success_u32(v) == [variant |-> "SuccessU32", value |-> v]

success == [variant |-> "Success"]

failure(e) == [variant |-> "Failure", error |-> e]

Ok == [variant |-> "Ok"]

Err(e) == [variant |-> "Err", error |-> e]

\* ---- mutants of command ----
command_c1(command_num, data, arg2, processid) ==
    CASE command_num = 0 -> success
      [] command_num = 1 -> IF data # 42 THEN failure("INVAL") ELSE success
      [] OTHER -> failure("NOSUPPORT")

command_c2(command_num, data, arg2, processid) ==
    CASE command_num = 0 -> success_u32(42)
      [] command_num = 1 -> IF data > 42 THEN failure("INVAL") ELSE success
      [] OTHER -> failure("NOSUPPORT")

command_c3(command_num, data, arg2, processid) ==
    CASE command_num = 0 -> success_u32(42)
      [] command_num \in {1, 2} -> IF data # 42 THEN failure("INVAL") ELSE success
      [] OTHER -> failure("NOSUPPORT")

command_c6(command_num, data, arg2, processid) ==
    CASE command_num = 0 -> success_u32(42)
      [] command_num = 1 -> IF data # 42 \/ arg2 # 0 THEN failure("INVAL") ELSE success
      [] OTHER -> failure("NOSUPPORT")

command_c7(command_num, data, arg2, processid) ==
    CASE command_num = 0 -> success_u32(42)
      [] command_num = 1 -> IF data # 42 THEN failure("INVAL") ELSE success
      [] OTHER -> [variant |-> "panic"]

command_c10(command_num, data, arg2, processid) ==
    CASE command_num = 0 -> success_u32(42)
      [] command_num = 1 -> IF data # 42 THEN failure("NOSUPPORT") ELSE success
      [] OTHER -> failure("NOSUPPORT")

\* LifeDriver::command: the match on command_num
command(command_num, data, arg2, processid) ==
    CASE command_num = 0 -> success_u32(42)
      [] command_num = 1 -> IF data # 42 THEN failure("INVAL") ELSE success
      [] OTHER -> failure("NOSUPPORT")

\* LifeDriver::allocate_grant
allocate_grant(processid) == Ok

\* ---- state ----
Idle == [kind |-> "idle"]

InFlight == {p \in ProcessId : call[p].kind # "idle"}

\* another process has a call in flight
Overlapped(p) == InFlight \ {p} # {}

Init ==
    /\ call = [p \in ProcessId |-> Idle]
    /\ trace = << >>
    /\ budget = MaxCalls

InitSeq ==
    /\ call = [p \in ProcessId |-> Idle]
    /\ trace = << >>
    /\ budget = MaxTrace

\* the front-end enters command(command_num, data, arg2, p)
CallCommand(p, command_num, data, arg2) ==
    /\ call[p].kind = "idle"
    /\ budget > 0
    /\ budget' = budget - 1
    /\ call' = [call EXCEPT ![p] = [kind |-> "command", command_num |-> command_num,
                                    data |-> data, arg2 |-> arg2]]
    /\ UNCHANGED trace

\* mutant: the result depends on an earlier allocate_grant of the process
ReturnCommand_c5(p) ==
    /\ call[p].kind = "command"
    /\ LET c == call[p]
           granted == \E i \in 1..Len(trace) :
                         trace[i].kind = "allocate_grant" /\ trace[i].processid = p
           r == IF granted THEN command(c.command_num, c.data, c.arg2, p)
                           ELSE failure("RESERVE")
       IN trace' = Append(trace, [kind |-> "command", processid |-> p,
                                  command_num |-> c.command_num, data |-> c.data,
                                  arg2 |-> c.arg2, ret |-> r,
                                  overlapped |-> Overlapped(p)])
    /\ call' = [call EXCEPT ![p] = Idle]
    /\ UNCHANGED budget

\* mutant: the arguments are read from a slot shared by the calls in flight
ReturnCommand_c8(p) ==
    /\ call[p].kind = "command"
    /\ LET c == call[p]
           others == {q \in ProcessId \ {p} : call[q].kind = "command"}
           s == IF others = {} THEN c ELSE call[CHOOSE q \in others : TRUE]
           r == command(s.command_num, s.data, s.arg2, p)
       IN trace' = Append(trace, [kind |-> "command", processid |-> p,
                                  command_num |-> c.command_num, data |-> c.data,
                                  arg2 |-> c.arg2, ret |-> r,
                                  overlapped |-> Overlapped(p)])
    /\ call' = [call EXCEPT ![p] = Idle]
    /\ UNCHANGED budget

\* command(...) of process p returns its CommandReturn
ReturnCommand(p) ==
    /\ call[p].kind = "command"
    /\ LET c == call[p]
           r == command(c.command_num, c.data, c.arg2, p)
       IN trace' = Append(trace, [kind |-> "command", processid |-> p,
                                  command_num |-> c.command_num, data |-> c.data,
                                  arg2 |-> c.arg2, ret |-> r,
                                  overlapped |-> Overlapped(p)])
    /\ call' = [call EXCEPT ![p] = Idle]
    /\ UNCHANGED budget

\* the front-end enters allocate_grant(p)
CallAllocateGrant(p) ==
    /\ call[p].kind = "idle"
    /\ budget > 0
    /\ budget' = budget - 1
    /\ call' = [call EXCEPT ![p] = [kind |-> "allocate_grant"]]
    /\ UNCHANGED trace

\* mutant: a second allocation for the same process is refused
ReturnAllocateGrant_c4(p) ==
    /\ call[p].kind = "allocate_grant"
    /\ LET again == \E i \in 1..Len(trace) :
                       trace[i].kind = "allocate_grant" /\ trace[i].processid = p
           r == IF again THEN Err("AlreadyInUse") ELSE allocate_grant(p)
       IN trace' = Append(trace, [kind |-> "allocate_grant", processid |-> p,
                                  ret |-> r, overlapped |-> Overlapped(p)])
    /\ call' = [call EXCEPT ![p] = Idle]
    /\ UNCHANGED budget

\* allocate_grant(p) returns
ReturnAllocateGrant(p) ==
    /\ call[p].kind = "allocate_grant"
    /\ trace' = Append(trace, [kind |-> "allocate_grant", processid |-> p,
                               ret |-> allocate_grant(p),
                               overlapped |-> Overlapped(p)])
    /\ call' = [call EXCEPT ![p] = Idle]
    /\ UNCHANGED budget

Next ==
    \/ \E p \in ProcessId, n \in CommandNums, d \in DataVals, a \in Arg2Vals :
          CallCommand(p, n, d, a)
    \/ \E p \in ProcessId : ReturnCommand(p)
    \/ \E p \in ProcessId : CallAllocateGrant(p)
    \/ \E p \in ProcessId : ReturnAllocateGrant(p)

NextSeq ==
    \/ \E p \in ProcessId, n \in SeqCommandNums, d \in SeqDataVals, a \in SeqArg2Vals :
          CallCommand(p, n, d, a)
    \/ \E p \in ProcessId : ReturnCommand(p)
    \/ \E p \in ProcessId : CallAllocateGrant(p)
    \/ \E p \in ProcessId : ReturnAllocateGrant(p)

Spec == Init /\ [][Next]_vars

SpecSeq == InitSeq /\ [][NextSeq]_vars

\* ---- helpers of the properties ----
Done == 1..Len(trace)

Commands == {i \in Done : trace[i].kind = "command"}

Grants == {i \in Done : trace[i].kind = "allocate_grant"}

SameInputs(i, j) ==
    /\ trace[i].kind = trace[j].kind
    /\ trace[i].processid = trace[j].processid
    /\ trace[i].kind = "command" =>
          /\ trace[i].command_num = trace[j].command_num
          /\ trace[i].data = trace[j].data
          /\ trace[i].arg2 = trace[j].arg2

\* the three variants of a command result
IsCommandReturn(r) ==
    \/ r = [variant |-> "Success"]
    \/ /\ DOMAIN r = {"variant", "value"}
       /\ r.variant = "SuccessU32"
       /\ r.value \in Nat
    \/ /\ DOMAIN r = {"variant", "error"}
       /\ r.variant = "Failure"
       /\ r.error \in ErrorCode

\* ---- properties ----

\* C1: command with command_num = 0 returns SuccessU32(42), whatever data,
\* arg2 and the calling process are; never Success and never a Failure.
C1_Command0Returns42 ==
    \A i \in Commands :
        trace[i].command_num = 0 =>
            trace[i].ret = [variant |-> "SuccessU32", value |-> 42]

C1_Witness ==
    \E i, j \in Commands :
        /\ trace[i].command_num = 0 /\ trace[j].command_num = 0
        /\ trace[i].data = 0 /\ trace[j].data = UsizeMax
        /\ trace[i].arg2 # trace[j].arg2
        /\ trace[i].processid # trace[j].processid

\* C2: command with command_num = 1 returns Success when data = 42 and
\* Failure(INVAL) for every other data, 0 and the largest usize included.
C2_Command1Checks42 ==
    \A i \in Commands :
        trace[i].command_num = 1 =>
            /\ trace[i].data = 42 => trace[i].ret = [variant |-> "Success"]
            /\ trace[i].data # 42 =>
                  trace[i].ret = [variant |-> "Failure", error |-> "INVAL"]

C2_Witness ==
    \E i, j \in Commands :
        /\ trace[i].command_num = 1 /\ trace[j].command_num = 1
        /\ trace[i].data = UsizeMax /\ trace[i].ret.variant = "Failure"
        /\ trace[j].data = 42 /\ trace[j].ret.variant = "Success"

C4_AllocateGrantOk ==
    \A i \in Grants : trace[i].ret = [variant |-> "Ok"]

C4_Witness ==
    \E i, j, k \in Done :
        /\ i < k /\ j < k
        /\ trace[k].kind = "allocate_grant"
        /\ trace[i].kind = "allocate_grant"
        /\ trace[i].processid = trace[k].processid
        /\ trace[j].kind = "command"

\* C5: no hidden state: two invocations with identical inputs return
\* identical results wherever they occur in the sequence, also when an
\* allocate_grant of that process lies between them.
C5_NoHiddenState ==
    \A i, j \in Done : SameInputs(i, j) => trace[i].ret = trace[j].ret

C5_Witness ==
    \E i, k, j \in Done :
        /\ i < k /\ k < j
        /\ trace[i].kind = "command"
        /\ SameInputs(i, j)
        /\ trace[k].kind = "allocate_grant"
        /\ trace[k].processid = trace[i].processid

\* C6: the result of command is a function of (command_num, data) alone:
\* two invocations agreeing on both return the same result whatever arg2
\* and the calling process are.
C6_FunctionOfNumAndData ==
    \A i, j \in Commands :
        (trace[i].command_num = trace[j].command_num /\ trace[i].data = trace[j].data)
            => trace[i].ret = trace[j].ret

C6_Witness ==
    \E i, j \in Commands :
        /\ trace[i].command_num = 1 /\ trace[j].command_num = 1
        /\ trace[i].data = 42 /\ trace[j].data = 42
        /\ trace[i].arg2 # trace[j].arg2
        /\ trace[i].processid # trace[j].processid

\* C7: command is total: every invocation returns exactly one of Success,
\* SuccessU32(v) or Failure(e); an unrecognised command number or a bad
\* argument gives a Failure value.
C7_CommandTotal ==
    \A i \in Commands :
        /\ IsCommandReturn(trace[i].ret)
        /\ (trace[i].command_num \notin {0, 1}
               \/ (trace[i].command_num = 1 /\ trace[i].data # 42))
              => trace[i].ret.variant = "Failure"

C7_Witness ==
    \E i, j \in Commands :
        /\ trace[i].command_num = UsizeMax /\ trace[i].data = UsizeMax
        /\ trace[j].command_num = 1 /\ trace[j].data = 0

\* C8: with the calls of several processes interleaved, an invocation that
\* returns while another process has a call in flight returns what the
\* same invocation returns when it runs alone.
C8_InterleavingIndependent ==
    \A i, j \in Done :
        (SameInputs(i, j) /\ ~trace[i].overlapped /\ trace[j].overlapped)
            => trace[i].ret = trace[j].ret

C8_Witness ==
    \E i, j \in Commands :
        /\ SameInputs(i, j)
        /\ ~trace[i].overlapped /\ trace[j].overlapped
        /\ \E q \in ProcessId :
              /\ q # trace[j].processid
              /\ call[q].kind = "command"
              /\ call[q].data # trace[j].data

\* C9: as the module documentation has it, command_num 2 and 3 return
\* Ok(()) for a valid index and INVAL otherwise, so their result is always
\* Success or Failure(INVAL).
C9_DocCommands2And3 ==
    \A i \in Commands :
        trace[i].command_num \in {2, 3} =>
            trace[i].ret \in {[variant |-> "Success"],
                              [variant |-> "Failure", error |-> "INVAL"]}

====
